---- MODULE Spec2Model ----
(***************************************************************************)
(* State-machine model of gemini_backend.py: the Flask request handlers    *)
(* (verify-note, generate-quiz, generate-summary, participatory-start,     *)
(* participatory-evaluate, send-notification), the process-wide GenAI key  *)
(* configuration, the upload directory, the remote object storage and the  *)
(* counters kept in the remote document store.                             *)
(*                                                                         *)
(* Two worker threads serve requests.  Each handler is cut into steps at   *)
(* its downstream calls, so that the steps of two requests interleave the  *)
(* way two Flask threads do.  Every value is a string or a number:         *)
(* Python's True/False/None are "true"/"false"/"null".                     *)
(***************************************************************************)
EXTENDS Integers, Sequences, FiniteSets, TLC

\* ------------------------------------------------------------------ bounds
\* Requests served in one behaviour (over both threads).
MaxRequests == 2
\* Length of the GEMINI_API string, hence of API_KEYS.
MaxKeys == 2

\* --------------------------------------------------------------- constants
Threads == {"t1", "t2"}

\* What a path of UPLOAD_FOLDER, or a public id of the storage, holds: no
\* file, a file whose write was cut short, or the upload of request n >= 1.
NoFile == 0
Partial == 0 - 1

\* Uploaded filenames, as sequences of characters.
Filenames == { <<"a", ".", "p">>, <<"a", ".", "q">> }

Endpoints == {"verify", "quiz", "summary", "pstart", "peval", "notify"}

\* The endpoints that obtain their model from get_configured_model.
KeyedEndpoints == {"verify", "summary", "pstart", "peval"}

\* Call sites of downstream services.
Sites == {"settings_get", "usage_set", "generate_content", "upload",
          "quiz_set", "url_get", "push_send"}

\* The document config/settings: it does not exist, it exists without the
\* field enableAiVerification, or it carries one of these values.
StoredValues == {"true", "false", "null"}
SettingsDocs == {"nodoc", "nofield"} \cup StoredValues

\* Replies of the model to the verify-note prompt: text that is no JSON, a
\* JSON value that is no object, or an object (with reason and summary) whose
\* status field is absent or one of these values ("maybe" is a string the
\* prompt does not list, "null" the JSON null, a status that is no string).
ReplyStatuses == {"approved", "rejected", "pending", "maybe", "null"}
VerifyReplies == {"notjson", "nonobject", "nostatus"} \cup ReplyStatuses

\* The inputs and downstream outcomes a specification draws from.
FullInputs ==
    [ endpoints |-> Endpoints,
      files     |-> Filenames,
      saves     |-> {"ok", "raise", "cut"},
      docs      |-> SettingsDocs,
      readok    |-> BOOLEAN,
      texts     |-> {"raise", "empty", "text"},
      replies   |-> {"raise"} \cup VerifyReplies,
      writes    |-> BOOLEAN ]

\* Two concurrent verify-note requests on notes that hold no extractable
\* text (scans, files that are no PDF), so that no model is asked.
FileInputs ==
    [ endpoints |-> {"verify"},
      files     |-> Filenames,
      saves     |-> {"ok", "raise", "cut"},
      docs      |-> {"true", "false"},
      readok    |-> {TRUE},
      texts     |-> {"raise", "empty"},
      replies   |-> {"raise"},
      writes    |-> BOOLEAN ]

\* Concurrent requests on the endpoints that only call the model.
KeyInputs == [FullInputs EXCEPT !.endpoints = {"quiz", "summary", "pstart", "peval"}]

VARIABLES
    API_KEYS,     \* module global, fixed at import
    configured,   \* the api_key of the process-wide genai configuration
    stats,        \* the counters of the stats collection: field -> count
    disk,         \* UPLOAD_FOLDER: filename -> content
    remote,       \* object storage (folder ktu_notes): public id -> content
    started,      \* requests accepted so far
    local         \* per thread: the handler's position and local variables

vars == <<API_KEYS, configured, stats, disk, remote, started, local>>

\* ----------------------------------------------------------- pure helpers

\* API_KEYS = [k for k in API_KEYS if k] over the characters of the string.
FilterKeys(s) == SelectSeq(s, LAMBDA k : k # "")

\* The strings os.environ.get("GEMINI_API") can hold: empty, or MaxKeys
\* characters (the comprehension iterates the string character by character).
KeyChars == <<"A", "B", "C", "D">>
KeyStrings == { <<>>, [i \in 1..MaxKeys |-> KeyChars[i]] }

\* Python truth value of a stored flag (the test `not ai_enabled`).
Truthy(v) == v \notin {"false", "null"}

\* Variant: .get('enableAiVerification', False).
SettingsFlagDefaultOff(doc) ==
    CASE doc = "nodoc"   -> "true"
      [] doc = "nofield" -> "false"
      [] OTHER           -> doc

\* ai_enabled after a settings read that returned `doc`: the default True
\* unless the document exists (doc.exists) and carries the field (.get).
SettingsFlag(doc) ==
    IF doc \in {"nodoc", "nofield"} THEN "true" ELSE doc

\* Variant: set({field: firestore.Increment(1)}) without merge=True, which
\* replaces the document the field belongs to.
IncrementNoMerge(doc, field) ==
    [g \in {x \in DOMAIN doc : x[1] # field[1]} \cup {field} |->
        IF g = field
        THEN (IF field \in DOMAIN doc THEN doc[field] ELSE 0) + 1
        ELSE doc[g]]

\* set({field: firestore.Increment(1)}, merge=True)
Increment(doc, field) ==
    IF field \in DOMAIN doc
    THEN [doc EXCEPT ![field] = @ + 1]
    ELSE doc @@ (field :> 1)

\* Fields of the stats collection: api_usage.key_<i> and
\* quiz_generation.count.
KeyName(i) == <<"api_usage", i>>
QuizField == <<"quiz_generation", 0>>

\* c if c.isalnum() or c in "._-" else "_"
CleanChar(c) == IF c \in {"a", "b", "p", "q", ".", "_", "-"} THEN c ELSE "_"
CleanFilename(fn) == [i \in 1..Len(fn) |-> CleanChar(fn[i])]

\* s.split('.')[0]
RECURSIVE UpToDot(_)
UpToDot(s) ==
    IF s = <<>> \/ Head(s) = "." THEN <<>> ELSE <<Head(s)>> \o UpToDot(Tail(s))

PublicId(fn) == UpToDot(CleanFilename(fn))
PublicIds == { PublicId(fn) : fn \in Filenames }

\* Line 109: res_type, from filename.lower().endswith(".pdf"). The storage
\* keeps one asset per resource type and public id; every filename of
\* Filenames has resource type "auto", so `remote` is indexed by the public
\* id alone.
Lower(c) ==
    CASE c = "A" -> "a" [] c = "B" -> "b" [] c = "D" -> "d"
      [] c = "F" -> "f" [] c = "P" -> "p" [] c = "Q" -> "q"
      [] OTHER -> c
EndsWithPdf(fn) ==
    /\ Len(fn) >= 4
    /\ [i \in 1..4 |-> Lower(fn[Len(fn) - 4 + i])] = <<".", "p", "d", "f">>
ResType(fn) == IF EndsWithPdf(fn) THEN "raw" ELSE "auto"

\* ---------------------------------------------------------- request state
Idle ==
    [ ep         |-> "none",     \* endpoint being served
      pc         |-> "idle",     \* position in the handler
      id         |-> 0,          \* number of the request
      filename   |-> <<>>,       \* file.filename
      saved      |-> FALSE,      \* file.save returned
      stored     |-> "unread",   \* config/settings when it was read
      read       |-> "unread",   \* what the read returned, or "raise"
      ai_enabled |-> "true",
      extracted  |-> NoFile,     \* content fitz.open(temp_path) opened
      missing    |-> FALSE,      \* temp_path was gone when opened/uploaded
      key        |-> 0,          \* selected_key_index (from 1), 0: none
      keyUsed    |-> "unset",    \* api key in effect at generate_content
      status     |-> "",
      reason     |-> "",
      summary    |-> "",
      reply      |-> "none",     \* model reply held between call and parse
      uploaded   |-> NoFile,     \* content stored by upload_to_cloudinary
      url        |-> <<>>,       \* public id returned by the upload
      rmTried    |-> FALSE,      \* os.remove(temp_path) was called
      rmErr      |-> FALSE,      \* ... and raised
      counted    |-> 0,          \* quiz counter increments issued
      calls      |-> [s \in Sites |-> 0],
      raised     |-> {},         \* the sites that raised
      caught     |-> "none",     \* except clause that caught the last raise
      escaped    |-> FALSE,      \* an exception left the handler
      code       |-> 0,          \* HTTP status of the response, 0: none yet
      nresp      |-> 0 ]         \* responses returned

Called(l, site) == [l EXCEPT !.calls[site] = @ + 1]

\* return jsonify(...), code
Respond(l, code) == [l EXCEPT !.code = code, !.nresp = @ + 1, !.pc = "done"]

\* Variant: manual mode is noted but extraction is not skipped.
AfterSettingsNoSkip(l) ==
    IF l.ai_enabled \notin {"false", "null"}
    THEN [l EXCEPT !.status = "pending",
                   !.reason = "AI Verification Failed or Skipped",
                   !.summary = "No summary generated.",
                   !.pc = "extract"]
    ELSE [l EXCEPT !.status = "pending",
                   !.reason = "Manual Mode Active (AI Verification Disabled)",
                   !.summary = "Pending Admin Review",
                   !.pc = "extract"]

\* Lines 169-180 of verify_note: the defaults, and manual mode when the flag
\* is not truthy.
AfterSettings(l) ==
    IF Truthy(l.ai_enabled)
    THEN [l EXCEPT !.status = "pending",
                   !.reason = "AI Verification Failed or Skipped",
                   !.summary = "No summary generated.",
                   !.pc = "extract"]
    ELSE [l EXCEPT !.status = "pending",
                   !.reason = "Manual Mode Active (AI Verification Disabled)",
                   !.summary = "Pending Admin Review",
                   !.pc = "upload"]

\* Variant: get_configured_model is called outside the inner try blocks of
\* verify_note.
HandlerModelOuter(ep, site) ==
    CASE site = "settings_get"                  -> "settings"
      [] site = "usage_set"                     -> "usage"
      [] site = "quiz_set"                      -> "count"
      [] site = "remove"                        -> "cleanup"
      [] ep = "verify" /\ site = "extract"      -> "extraction"
      [] ep = "verify" /\ site \in {"generate_content", "parse"}
                                                -> "ai"
      [] OTHER                                  -> "outer"

\* Variant: messaging.send is called outside the try block of
\* send_notification.
HandlerNoTry(ep, site) ==
    CASE site = "settings_get"                  -> "settings"
      [] site = "usage_set"                     -> "usage"
      [] site = "quiz_set"                      -> "count"
      [] site = "remove"                        -> "cleanup"
      [] site = "push_send"                     -> "none"
      [] ep = "verify" /\ site \in {"extract", "get_model"}
                                                -> "extraction"
      [] ep = "verify" /\ site \in {"generate_content", "parse"}
                                                -> "ai"
      [] OTHER                                  -> "outer"

\* Variant: the quiz counter write has no try block of its own.
HandlerCountOuter(ep, site) ==
    CASE site = "settings_get"                  -> "settings"
      [] site = "usage_set"                     -> "usage"
      [] site = "remove"                        -> "cleanup"
      [] ep = "verify" /\ site \in {"extract", "get_model"}
                                                -> "extraction"
      [] ep = "verify" /\ site \in {"generate_content", "parse"}
                                                -> "ai"
      [] OTHER                                  -> "outer"

\* The except clause enclosing a raise at `site` in the handler of `ep`.
Handler(ep, site) ==
    CASE site = "settings_get"                  -> "settings"    \* line 166
      [] site = "usage_set"                     -> "usage"       \* line 79
      [] site = "quiz_set"                      -> "count"       \* line 319
      [] site = "remove"                        -> "cleanup"     \* 237, 254
      [] ep = "verify" /\ site \in {"extract", "get_model"}
                                                -> "extraction"  \* line 222
      [] ep = "verify" /\ site \in {"generate_content", "parse"}
                                                -> "ai"          \* line 218
      [] OTHER                                  -> "outer"

\* Where control goes, and what is assigned, when `site` raises.  An
\* exception no clause of the handler encloses reaches Flask's
\* handle_global_exception, which answers 500.
Thrown(l, site) ==
    LET h == Handler(l.ep, site)
        c == [l EXCEPT !.caught = h, !.raised = @ \cup {site}]
    IN  CASE h = "settings"   -> AfterSettings(c)
          [] h = "usage"      -> [c EXCEPT !.pc = "call"]
          [] h = "count"      -> [c EXCEPT !.pc = "parse"]
          [] h = "cleanup"    -> [c EXCEPT !.rmErr = TRUE]
          [] h = "extraction" -> [c EXCEPT !.pc = "upload"]
          [] h = "ai"         ->
               [c EXCEPT !.status = "pending",
                         !.reason = "AI Processing Error, marked as pending for human review.",
                         !.pc = "upload"]
          [] h = "outer"      -> IF l.ep = "verify"
                                 THEN [c EXCEPT !.pc = "fail"]
                                 ELSE Respond(c, 500)
          [] OTHER            -> Respond([c EXCEPT !.escaped = TRUE], 500)

Set(t, l) == local' = [local EXCEPT ![t] = l]

\* A thread accepts a request for endpoint ep.
Accept(t, In, ep) ==
    /\ local[t].pc = "idle"
    /\ ep \in In.endpoints
    /\ started < MaxRequests
    /\ started' = started + 1

Accepted(t, ep) == [local[t] EXCEPT !.ep = ep, !.id = started + 1]

\* ------------------------------------------------------------------- Init
Init ==
    /\ API_KEYS \in { FilterKeys(s) : s \in KeyStrings }
    /\ configured = "unset"
    /\ stats = << >>
    /\ disk = [f \in Filenames |-> NoFile]
    /\ remote = [p \in PublicIds |-> NoFile]
    /\ started = 0
    /\ local = [t \in Threads |-> Idle]

\* ------------------------------------------------------------ verify-note

\* Lines 142-154: the request is accepted; 400 without a file or a name.
VN_Receive(t, In) ==
    /\ Accept(t, In, "verify")
    /\ LET l == Accepted(t, "verify") IN
         \/ \E bad \in {"nofile", "noname"} : Set(t, Respond(l, 400))
         \/ \E f \in In.files :
              Set(t, [l EXCEPT !.filename = f, !.pc = "save"])
    /\ UNCHANGED <<API_KEYS, configured, stats, disk, remote>>

\* Line 155: file.save(temp_path).  It may raise, before the file is opened
\* for writing or after part of it was written.
VN_Save(t, In) ==
    LET l == local[t] IN
    /\ l.ep = "verify" /\ l.pc = "save"
    /\ \E o \in In.saves :
         /\ disk' = CASE o = "ok"    -> [disk EXCEPT ![l.filename] = l.id]
                      [] o = "cut"   -> [disk EXCEPT ![l.filename] = Partial]
                      [] o = "raise" -> disk
         /\ IF o = "ok"
            THEN Set(t, [l EXCEPT !.saved = TRUE, !.pc = "settings"])
            ELSE Set(t, Thrown(l, "save"))
    /\ UNCHANGED <<API_KEYS, configured, stats, remote, started>>

\* Lines 158-180: the settings read and the branch on the flag.
VN_Settings(t, In) ==
    LET l == Called(local[t], "settings_get") IN
    /\ l.ep = "verify" /\ l.pc = "settings"
    /\ \E d \in In.docs, ok \in In.readok :
         LET r == [l EXCEPT !.stored = d] IN
         IF ok
         THEN Set(t, AfterSettings([r EXCEPT !.read = d,
                                             !.ai_enabled = SettingsFlag(d)]))
         ELSE Set(t, Thrown([r EXCEPT !.read = "raise"], "settings_get"))
    /\ UNCHANGED <<API_KEYS, configured, stats, disk, remote, started>>

\* Lines 184-188: fitz.open(temp_path) and the text of its pages.
VN_Extract(t, In) ==
    LET l == local[t]
        c == disk[l.filename]
    IN
    /\ l.ep = "verify" /\ l.pc = "extract"
    /\ IF c = NoFile
       THEN Set(t, Thrown([l EXCEPT !.missing = TRUE], "extract"))
       ELSE \E o \in In.texts :
              LET r == [l EXCEPT !.extracted = c] IN
              CASE o = "raise" -> Set(t, Thrown(r, "extract"))
                [] o = "empty" -> Set(t, [r EXCEPT !.pc = "upload"])
                [] o = "text"  -> Set(t, [r EXCEPT !.pc = "model"])
    /\ UNCHANGED <<API_KEYS, configured, stats, disk, remote, started>>

\* Lines 211-221: generate_content and the parsing of its reply.
VN_Call(t, In) ==
    LET l == Called([local[t] EXCEPT !.keyUsed = configured],
                    "generate_content")
    IN
    /\ l.ep = "verify" /\ l.pc = "call"
    /\ \E o \in In.replies :
         CASE o = "raise" -> Set(t, Thrown(l, "generate_content"))
           [] o \in {"notjson", "nonobject"} -> Set(t, Thrown(l, "parse"))
           [] OTHER ->
                Set(t, [l EXCEPT
                          !.status = IF o = "nostatus" THEN "pending" ELSE o,
                          !.reason = "reason of the reply",
                          !.summary = "summary of the reply",
                          !.pc = "upload"])
    /\ UNCHANGED <<API_KEYS, configured, stats, disk, remote, started>>

\* Lines 227-230 and upload_to_cloudinary: the file at temp_path is stored
\* under the public id derived from the filename.
VN_Upload(t, In) ==
    LET l == Called(local[t], "upload")
        c == disk[l.filename]
    IN
    /\ l.ep = "verify" /\ l.pc = "upload"
    /\ IF c = NoFile
       THEN /\ Set(t, Thrown([l EXCEPT !.missing = TRUE], "upload"))
            /\ UNCHANGED remote
       ELSE \E ok \in In.writes :
              IF ok
              THEN /\ remote' = [remote EXCEPT ![PublicId(l.filename)] = c]
                   /\ Set(t, [l EXCEPT !.uploaded = c,
                                       !.url = PublicId(l.filename),
                                       !.pc = "cleanup"])
              ELSE /\ Set(t, Thrown(l, "upload"))
                   /\ UNCHANGED remote
    /\ UNCHANGED <<API_KEYS, configured, stats, disk, started>>

\* Variant: the temp file is never removed.
RemoveTempNever(l, d) == { <<l, d>> }

\* if temp_path.exists(): os.remove(temp_path), inside try/except.
\* Yields the request state and the directory after it.
RemoveTemp(l, d) ==
    IF d[l.filename] = NoFile
    THEN { <<l, d>> }
    ELSE { <<[l EXCEPT !.rmTried = TRUE],
             [d EXCEPT ![l.filename] = NoFile]>>,
           <<Thrown([l EXCEPT !.rmTried = TRUE], "remove"), d>> }

\* Lines 232-246: cleanup and the 200 response.
VN_Cleanup(t) ==
    LET l == local[t] IN
    /\ l.ep = "verify" /\ l.pc = "cleanup"
    /\ \E r \in RemoveTemp(l, disk) :
         /\ disk' = r[2]
         /\ Set(t, Respond(r[1], 200))
    /\ UNCHANGED <<API_KEYS, configured, stats, remote, started>>

\* Lines 248-255: the outer except clause.
VN_Fail(t) ==
    LET l == local[t] IN
    /\ l.ep = "verify" /\ l.pc = "fail"
    /\ \E r \in RemoveTemp(l, disk) :
         /\ disk' = r[2]
         /\ Set(t, Respond(r[1], 500))
    /\ UNCHANGED <<API_KEYS, configured, stats, remote, started>>

\* ------------------------------------------------- get_configured_model

\* Lines 58-82: a random key is configured process-wide and its usage
\* counter incremented; a failed counter write is logged only.  The model
\* object returned holds no key: genai reads the process-wide configuration
\* when generate_content needs a client, which is where keyUsed is taken.
GetModel(t, In) ==
    LET l == local[t] IN
    /\ l.ep \in KeyedEndpoints /\ l.pc = "model"
    /\ IF API_KEYS = <<>>
       THEN /\ Set(t, Thrown(l, "get_model"))
            /\ UNCHANGED <<configured, stats>>
       ELSE \E i \in 1..Len(API_KEYS), ok \in In.writes :
              LET r == Called([l EXCEPT !.key = i], "usage_set") IN
              /\ configured' = API_KEYS[i]
              /\ stats' = IF ok THEN Increment(stats, KeyName(i)) ELSE stats
              /\ Set(t, IF ok THEN [r EXCEPT !.pc = "call"]
                               ELSE Thrown(r, "usage_set"))
    /\ UNCHANGED <<API_KEYS, disk, remote, started>>

\* ---------------------------------------------------------- generate-quiz

\* extract_text_from_url: the download and the text of the PDF.
FromUrl(l, o, next) ==
    LET c == Called(l, "url_get") IN
    CASE o = "raise" -> Thrown(c, "url_get")
      [] o = "empty" -> Respond(c, 400)
      [] o = "text"  -> [c EXCEPT !.pc = next]

\* Lines 278-296: the body is read and the source text obtained.  The model
\* is built without a key being configured.
GQ_Start(t, In) ==
    /\ Accept(t, In, "quiz")
    /\ LET l == Accepted(t, "quiz") IN
         \/ Set(t, Thrown(l, "get_json"))
         \/ Set(t, Respond(l, 400))
         \/ Set(t, [l EXCEPT !.pc = "call"])
         \/ \E o \in {"raise", "empty", "text"} : Set(t, FromUrl(l, o, "call"))
    /\ UNCHANGED <<API_KEYS, configured, stats, disk, remote>>

\* Line 311: generate_content.
GQ_Call(t) ==
    LET l == Called([local[t] EXCEPT !.keyUsed = configured],
                    "generate_content")
    IN
    /\ l.ep = "quiz" /\ l.pc = "call"
    /\ \E o \in {"raise", "json", "notjson"} :
         IF o = "raise"
         THEN Set(t, Thrown(l, "generate_content"))
         ELSE Set(t, [l EXCEPT !.reply = o, !.pc = "count"])
    /\ UNCHANGED <<API_KEYS, configured, stats, disk, remote, started>>

\* Lines 313-320: the quiz counter.
GQ_Count(t, In) ==
    LET l == Called([local[t] EXCEPT !.counted = @ + 1], "quiz_set") IN
    /\ l.ep = "quiz" /\ l.pc = "count"
    /\ \E ok \in In.writes :
         /\ stats' = IF ok THEN Increment(stats, QuizField) ELSE stats
         /\ Set(t, IF ok THEN [l EXCEPT !.pc = "parse"]
                          ELSE Thrown(l, "quiz_set"))
    /\ UNCHANGED <<API_KEYS, configured, disk, remote, started>>

\* Lines 323-326: the reply is parsed and returned.
GQ_Parse(t) ==
    LET l == local[t] IN
    /\ l.ep = "quiz" /\ l.pc = "parse"
    /\ IF l.reply = "json"
       THEN Set(t, Respond(l, 200))
       ELSE Set(t, Thrown(l, "parse"))
    /\ UNCHANGED <<API_KEYS, configured, stats, disk, remote, started>>

\* ------------------------------------------------------- generate-summary

\* Lines 335-347.
GS_Start(t, In) ==
    /\ Accept(t, In, "summary")
    /\ LET l == Accepted(t, "summary") IN
         \/ Set(t, Thrown(l, "get_json"))
         \/ Set(t, Respond(l, 400))
         \/ \E o \in {"raise", "empty", "text"} : Set(t, FromUrl(l, o, "model"))
    /\ UNCHANGED <<API_KEYS, configured, stats, disk, remote>>

\* ------------------------------------- participatory-start and -evaluate

\* Lines 372-375 and 404-410.
PL_Start(t, In) ==
    /\ \E ep \in {"pstart", "peval"} :
         /\ Accept(t, In, ep)
         /\ LET l == Accepted(t, ep) IN
              \/ Set(t, Thrown(l, "get_json"))
              \/ Set(t, [l EXCEPT !.pc = "model"])
    /\ UNCHANGED <<API_KEYS, configured, stats, disk, remote>>

\* generate_content and the use of its reply in generate_summary (lines
\* 360-363), participatory_start (393-395) and participatory_evaluate
\* (427-429).
KE_Call(t) ==
    LET l == Called([local[t] EXCEPT !.keyUsed = configured],
                    "generate_content")
    IN
    /\ l.ep \in {"summary", "pstart", "peval"} /\ l.pc = "call"
    /\ \E o \in {"raise", "json", "notjson"} :
         CASE o = "raise" -> Set(t, Thrown(l, "generate_content"))
           [] o = "notjson" /\ l.ep # "summary" -> Set(t, Thrown(l, "parse"))
           [] OTHER -> Set(t, Respond(l, 200))
    /\ UNCHANGED <<API_KEYS, configured, stats, disk, remote, started>>

\* ------------------------------------------------------ send-notification

\* Lines 441-465.
SN_Handle(t, In) ==
    /\ Accept(t, In, "notify")
    /\ LET l == Accepted(t, "notify") IN
         \/ Set(t, Thrown(l, "get_json"))
         \/ Set(t, Respond(l, 400))
         \/ \E ok \in In.writes :
              LET c == Called(l, "push_send") IN
              IF ok THEN Set(t, Respond(c, 200))
                    ELSE Set(t, Thrown(c, "push_send"))
    /\ UNCHANGED <<API_KEYS, configured, stats, disk, remote>>

\* ------------------------------------------------------------------ specs

\* The thread takes its next request.
Recycle(t) ==
    /\ local[t].pc = "done"
    /\ Set(t, Idle)
    /\ UNCHANGED <<API_KEYS, configured, stats, disk, remote, started>>

\* One step of thread t under the inputs In.
Step(t, In) ==
    \/ VN_Receive(t, In)
    \/ VN_Save(t, In)
    \/ VN_Settings(t, In)
    \/ VN_Extract(t, In)
    \/ GetModel(t, In)
    \/ VN_Call(t, In)
    \/ VN_Upload(t, In)
    \/ VN_Cleanup(t)
    \/ VN_Fail(t)
    \/ GQ_Start(t, In)
    \/ GQ_Call(t)
    \/ GQ_Count(t, In)
    \/ GQ_Parse(t)
    \/ GS_Start(t, In)
    \/ PL_Start(t, In)
    \/ KE_Call(t)
    \/ SN_Handle(t, In)
    \/ Recycle(t)

\* Requests served one after the other, with every input and outcome.
Next == Step("t1", FullInputs)

Spec == Init /\ [][Next]_vars

\* Two verify-note requests at a time.
NextFiles ==
    \E t \in Threads :
        \/ VN_Receive(t, FileInputs)
        \/ VN_Save(t, FileInputs)
        \/ VN_Settings(t, FileInputs)
        \/ VN_Extract(t, FileInputs)
        \/ VN_Upload(t, FileInputs)
        \/ VN_Cleanup(t)
        \/ VN_Fail(t)
        \/ Recycle(t)

SpecFiles == Init /\ [][NextFiles]_vars

\* Two requests at a time on the endpoints that call the model.
NextKeys ==
    \E t \in Threads :
        \/ GQ_Start(t, KeyInputs)
        \/ GQ_Call(t)
        \/ GQ_Count(t, KeyInputs)
        \/ GQ_Parse(t)
        \/ GS_Start(t, KeyInputs)
        \/ PL_Start(t, KeyInputs)
        \/ GetModel(t, KeyInputs)
        \/ KE_Call(t)
        \/ Recycle(t)

SpecKeys == Init /\ [][NextKeys]_vars

\* ----------------------------------------------------------------- claims

VerifyDone(t) == local[t].ep = "verify" /\ local[t].pc = "done"

ManualReason == "Manual Mode Active (AI Verification Disabled)"

\* C1: when a verify-note request that saved its upload ends, the upload is
\* stored in remote storage under the returned id, or still on local disk.
C1_ArtifactKept ==
    \A t \in Threads :
        LET l == local[t] IN
        (VerifyDone(t) /\ l.saved) =>
            \/ l.code = 200 /\ remote[l.url] = l.id
            \/ disk[l.filename] = l.id

\* The stages of verify-note between the settings read and the upload.
AiStages == {"extract", "get_model", "generate_content", "parse"}

\* What C2 says of a finished verify-note request with AI verification on,
\* where `degrading` are the stages whose failure leaves status "pending".
C2_Shape(l, degrading) ==
    /\ l.code = 500 <=> l.raised \cap {"save", "upload"} # {}
    /\ l.raised \cap (AiStages \cup {"settings_get"}) # {} =>
          /\ l.calls["upload"] = 1
          /\ l.uploaded # NoFile =>
                l.code = 200 /\ l.url = PublicId(l.filename)
    /\ (l.raised \cap degrading # {} /\ l.uploaded # NoFile) =>
          l.status = "pending"

\* C2 (as stated): a failure of the settings read, the extraction,
\* get_configured_model, generate_content or the parsing of the reply leaves
\* a 200 response with status "pending" when the upload succeeds; only a
\* failed save or upload gives 500.
C2_Original ==
    \A t \in Threads :
        (VerifyDone(t) /\ Truthy(local[t].ai_enabled)) =>
            C2_Shape(local[t], AiStages \cup {"settings_get"})

\* C2 (amended): as above, but a failed settings read only leaves AI
\* verification on; the status is "pending" when one of the later stages
\* failed.
C2_Degrades ==
    \A t \in Threads :
        (VerifyDone(t) /\ Truthy(local[t].ai_enabled)) =>
            C2_Shape(local[t], AiStages)

\* generate_content raised, the upload succeeded, the answer is 200 pending.
C2_Witness ==
    \E t \in Threads :
        /\ VerifyDone(t)
        /\ "generate_content" \in local[t].raised
        /\ local[t].uploaded # NoFile
        /\ local[t].code = 200 /\ local[t].status = "pending"

\* C3: every request ends with exactly one response of status 200, 400 or
\* 500, no exception leaves the handler, and no downstream call is made
\* more than once per request.
C3_OneResponse ==
    \A t \in Threads :
        LET l == local[t] IN
        /\ l.pc = "done" => l.nresp = 1 /\ l.code \in {200, 400, 500}
        /\ l.pc # "done" => l.nresp = 0 /\ l.code = 0
        /\ ~l.escaped
        /\ \A s \in Sites : l.calls[s] <= 1

\* A push dispatch that raised was answered 500 by send_notification.
C3_Witness ==
    \E t \in Threads :
        /\ local[t].ep = "notify" /\ local[t].pc = "done"
        /\ "push_send" \in local[t].raised
        /\ local[t].code = 500

\* The counter f went up by one, or was created at one, and nothing else
\* changed.
BumpedBy1(f) ==
    /\ DOMAIN stats' = DOMAIN stats \cup {f}
    /\ stats'[f] = (IF f \in DOMAIN stats THEN stats[f] ELSE 0) + 1
    /\ \A g \in DOMAIN stats \ {f} : stats'[g] = stats[g]

\* Thread t issued a counter write that did not raise.
Wrote(t) ==
    \E s \in {"usage_set", "quiz_set"} :
        /\ local'[t].calls[s] > local[t].calls[s]
        /\ s \notin local'[t].raised

CounterFields == { KeyName(i) : i \in 1..MaxKeys } \cup {QuizField}

\* C4: no step removes or lowers a counter; a step that changes the counters
\* raises exactly one of them by one (creating it at one), and every counter
\* write that succeeds does so.
C4_CountersMonotone ==
    [][ /\ \A f \in DOMAIN stats : f \in DOMAIN stats' /\ stats'[f] >= stats[f]
        /\ stats' # stats => \E f \in CounterFields : BumpedBy1(f)
        /\ \A t \in Threads :
              Wrote(t) => \E f \in CounterFields : BumpedBy1(f)
      ]_vars

\* A counter was incremented twice.
C4_Witness == \E f \in DOMAIN stats : stats[f] = 2

\* C5: in verify-note AI verification is on when the settings read raised,
\* found no document or found it without the field; it is off exactly when
\* the read returned a false value (false, null); a failed read does not end
\* the request: the upload is still made.
C5_FlagDefault ==
    \A t \in Threads :
        LET l == local[t] IN
        (l.ep = "verify" /\ l.read # "unread") =>
            /\ l.read \in {"raise", "nodoc", "nofield"} => l.ai_enabled = "true"
            /\ l.reason = ManualReason <=> l.read \in {"false", "null"}
            /\ l.read = "raise" =>
                  /\ l.pc = "fail" => "upload" \in l.raised
                  /\ l.pc = "done" => l.calls["upload"] = 1

\* The read raised over a stored false, and the note was verified by the model.
C5_Witness ==
    \E t \in Threads :
        /\ VerifyDone(t)
        /\ local[t].read = "raise" /\ local[t].stored = "false"
        /\ local[t].code = 200 /\ local[t].status = "approved"

\* C6: in a process that has API keys, when a request calls
\* generate_content, the key configured in the process is the key this
\* request selected and configured.
C6_OwnKey ==
    \A t \in Threads :
        LET l == local[t] IN
        (API_KEYS # <<>> /\ l.calls["generate_content"] > 0) =>
            l.key # 0 /\ l.keyUsed = API_KEYS[l.key]

\* The same, of the requests that did configure a key; it fails too, when
\* another request configures its key between GetModel and the call.
C6_KeyedOwnKey ==
    \A t \in Threads :
        LET l == local[t] IN
        (l.calls["generate_content"] > 0 /\ l.key # 0) =>
            l.keyUsed = API_KEYS[l.key]

\* What C7 says of a verify-note request in manual mode.
C7_Skips(l) ==
    /\ l.extracted = NoFile
    /\ l.pc \notin {"extract", "model", "call"}
    /\ l.key = 0 /\ l.keyUsed = "unset"
    /\ l.calls["generate_content"] = 0 /\ l.calls["usage_set"] = 0
    /\ l.pc = "done" =>
          /\ l.calls["upload"] = 1
          /\ l.uploaded # NoFile =>
                /\ l.code = 200 /\ l.status = "pending"
                /\ l.reason = ManualReason
                /\ l.summary = "Pending Admin Review"

\* C7 (as stated): when the stored flag is false, verify-note extracts no
\* text, calls neither get_configured_model nor the model, increments no
\* usage counter, still uploads, and answers 200 "pending" in manual mode.
C7_Original ==
    \A t \in Threads :
        (local[t].ep = "verify" /\ local[t].stored = "false") =>
            C7_Skips(local[t])

\* C7 (amended): the same, when the settings read returned the flag false.
C7_ManualMode ==
    \A t \in Threads :
        (local[t].ep = "verify" /\ local[t].read = "false") =>
            C7_Skips(local[t])

\* The read returned false and the request was answered in manual mode.
C7_Witness ==
    \E t \in Threads :
        /\ VerifyDone(t) /\ local[t].read = "false"
        /\ local[t].code = 200 /\ local[t].reason = ManualReason

\* C8: a generate-quiz request issues the counter increment once, exactly
\* when generate_content returned, and before the reply is parsed; a reply
\* that does not parse gives 500 with the increment issued; 400 responses
\* and requests whose extraction or model call raised issue none; a failed
\* counter write leaves the response what the reply makes it.
C8_QuizCounter ==
    \A t \in Threads :
        LET l == local[t] IN
        l.ep = "quiz" =>
            /\ l.counted = l.calls["quiz_set"] /\ l.counted <= 1
            /\ l.pc = "count" => l.reply # "none" /\ l.counted = 0
            /\ l.pc # "count" => (l.counted = 1 <=> l.reply # "none")
            /\ l.reply # "none" <=>
                  (l.calls["generate_content"] = 1
                      /\ "generate_content" \notin l.raised)
            /\ l.pc = "parse" => l.counted = 1
            /\ l.pc = "done" =>
                  /\ l.code = 400 => l.counted = 0
                  /\ l.raised \cap {"get_json", "url_get", "generate_content"}
                        # {} => l.counted = 0
                  /\ l.reply = "notjson" => l.code = 500 /\ l.counted = 1
                  /\ l.reply = "json" => l.code = 200 /\ l.counted = 1

\* A reply that did not parse: 500, with the counter incremented.
C8_Witness ==
    \E t \in Threads :
        /\ local[t].ep = "quiz" /\ local[t].pc = "done"
        /\ local[t].reply = "notjson" /\ local[t].code = 500
        /\ QuizField \in DOMAIN stats

\* Thread t answers a verify-note request that saved its upload.
Answers(t) ==
    /\ local[t].ep = "verify" /\ local[t].saved
    /\ local[t].pc \in {"cleanup", "fail"}
    /\ local'[t].pc = "done"

\* C9: when verify-note answers, on the 200 and on the 500 path, it has
\* tried to remove the temp file if there was one; without a removal error
\* no file is left at temp_path; the removal and its error leave the
\* response what it was going to be.
C9_TempRemoved ==
    [][ \A t \in Threads :
          Answers(t) =>
            LET l == local[t]
                a == local'[t]
            IN  /\ disk[l.filename] # NoFile => a.rmTried
                /\ ~a.rmErr => disk'[l.filename] = NoFile
                /\ a.code = (IF l.pc = "cleanup" THEN 200 ELSE 500)
                /\ a.status = l.status /\ a.reason = l.reason
                /\ a.summary = l.summary /\ a.url = l.url
      ]_vars

\* A failed upload answered 500 after the temp file was removed.
C9_Witness ==
    \E t \in Threads :
        /\ VerifyDone(t) /\ local[t].saved
        /\ local[t].code = 500
        /\ local[t].rmTried /\ ~local[t].rmErr
        /\ disk[local[t].filename] = NoFile

\* C10: a verify-note request opens for extraction, and uploads, the content
\* of its own upload, and never finds temp_path gone.
C10_OwnContent ==
    \A t \in Threads :
        LET l == local[t] IN
        l.ep = "verify" =>
            /\ l.extracted \in {NoFile, l.id}
            /\ l.uploaded \in {NoFile, l.id}
            /\ ~l.missing

\* The three statuses the verify-note prompt asks the model for (line 205).
PromptStatuses == {"approved", "rejected", "pending"}

\* C11: every HTTP 200 response of verify-note carries a status that is one
\* of "approved", "rejected" or "pending", whatever the model replied.
C11_StatusValid ==
    \A t \in Threads :
        (VerifyDone(t) /\ local[t].code = 200) =>
            local[t].status \in PromptStatuses

\* C12: two verify-note requests that uploaded files of different names
\* (and the same resource type) were given different public ids, and the
\* artifact each of them stored is still the one kept under its id: no
\* upload replaces the artifact of another.
C12_ArtifactsApart ==
    \A t, u \in Threads :
        LET l == local[t]
            m == local[u]
        IN
        ( /\ t # u
          /\ VerifyDone(t) /\ l.code = 200
          /\ m.ep = "verify" /\ m.uploaded # NoFile
          /\ m.filename # l.filename
          /\ ResType(m.filename) = ResType(l.filename) ) =>
            /\ m.url # l.url
            /\ remote[l.url] = l.uploaded

TypeOK ==
    /\ configured \in {"unset"} \cup { KeyChars[i] : i \in 1..MaxKeys }
    /\ started \in 0..MaxRequests
    /\ \A t \in Threads : local[t].code \in {0, 200, 400, 500}
====
